---- MODULE Spec2Model ----
(***************************************************************************)
(* A model of the retrieval-augmented-generation pipeline of src/index.js: *)
(* scrapeWebPage, generateVectorEmbeddings, insertIntoDB, chunkText,       *)
(* ingest and chat, with the Chroma collection and the Gemini models as    *)
(* the environment.                                                        *)
(*                                                                         *)
(* A text is a sequence of one-character strings.  An embedding is a       *)
(* sequence of components; the empty sequence is the empty vector [] that  *)
(* generateVectorEmbeddings returns on failure.  pc names the external     *)
(* call the program is waiting for.                                        *)
(***************************************************************************)
EXTENDS Integers, Sequences, FiniteSets, TLC

\* ------------------------------------------------------------------ bounds
\* Longest text handed to chunkText in the chunker specification.
MaxTextLen == 4
\* Largest chunkSize argument tried in the chunker specification.
MaxChunkSize == 3
\* The chunkSize argument ingest passes to chunkText (500 in the source);
\* the model is parametric in it and runs with a small value.
ChunkSize == 2
\* The minimum trimmed body length scrapeWebPage accepts (50 in the
\* source), scaled with the page bodies of the model.
MinBodyLen == 3
\* Number of top-level operations (ingest or chat calls) of one run.
MaxOps == 2
\* Passes of a chunkText loop that does not end that the model follows.
MaxLoopSteps == 3

\* ------------------------------------------------------- program constants
\* nResults of collection.query
TopK == 3

\* ------------------------------------------------------------------ state
VARIABLES
    chunkCall,          \* a direct call of chunkText: arguments and result
    procs,              \* the invocations of ingest running side by side
    store,              \* the collection WEB_SCAPED_DATA_COLLECTION-1
    pc,                 \* where the top-level program is
    ops,                \* operations started so far
    url, head, bodyChunks, i, bodyEmbedding,        \* locals of ingest
    question, questionEmbedding, metadatas, prompt, \* locals of chat
    calls,              \* external calls issued by the current operation
    report,             \* what the last finished operation logged
    hist                \* the finished ingests, oldest first

vars == <<chunkCall, procs, store, pc, ops, url, head, bodyChunks, i, bodyEmbedding,
          question, questionEmbedding, metadatas, prompt, calls, report, hist>>

ingestLocals == <<url, head, bodyChunks, i, bodyEmbedding>>
chatLocals == <<question, questionEmbedding, metadatas, prompt>>

\* -------------------------------------------------------------------- text
Letters == {"a", "b"}
Whitespace == {" ", "\n"}
Chars == Letters \cup Whitespace

\* /\s/ of the regular expressions in split, replace and trim
IsWs(c) == c \in Whitespace

Min(a, b) == IF a < b THEN a ELSE b

RECURSIVE splitFrom(_, _, _)
splitFrom(t, k, cur) ==
    IF k > Len(t) THEN <<cur>>
    ELSE IF IsWs(t[k])
         THEN IF k > 1 /\ IsWs(t[k - 1])
              THEN splitFrom(t, k + 1, cur)
              ELSE <<cur>> \o splitFrom(t, k + 1, <<>>)
         ELSE splitFrom(t, k + 1, Append(cur, t[k]))

\* text.split(/\s+/): the pieces between the maximal whitespace runs; a
\* leading or trailing run leaves an empty piece at that end, and the empty
\* text gives one empty piece.
split(t) == splitFrom(t, 1, <<>>)

RECURSIVE join(_, _)
\* words.join(sep)
join(words, sep) ==
    IF Len(words) = 0 THEN <<>>
    ELSE IF Len(words) = 1 THEN words[1]
    ELSE words[1] \o sep \o join(Tail(words), sep)

Max(a, b) == IF a < b THEN b ELSE a

\* an index argument of slice: a negative one counts from the end, and
\* both kinds are clipped to 0..length
sliceIndex(x, len) == IF x < 0 THEN Max(len + x, 0) ELSE Min(x, len)

\* words.slice(from, to), 0-based, end exclusive
slice(words, from, to) ==
    SubSeq(words, sliceIndex(from, Len(words)) + 1, sliceIndex(to, Len(words)))

RECURSIVE chunkLoop(_, _, _)
\* for (let i = 0; i < words.length; i += chunkSize) chunks.push(...)
chunkLoop(words, k, chunkSize) ==
    IF k < Len(words)
    THEN <<join(slice(words, k, k + chunkSize), <<" ">>)>>
             \o chunkLoop(words, k + chunkSize, chunkSize)
    ELSE <<>>

\* chunkText(text, chunkSize), for chunkSize > 0
chunkText(t, chunkSize) == chunkLoop(split(t), 0, chunkSize)

\* body.trim()
RECURSIVE trimStart(_)
trimStart(t) == IF Len(t) > 0 /\ IsWs(t[1]) THEN trimStart(Tail(t)) ELSE t
RECURSIVE trimEnd(_)
trimEnd(t) ==
    IF Len(t) > 0 /\ IsWs(t[Len(t)]) THEN trimEnd(SubSeq(t, 1, Len(t) - 1)) ELSE t
trim(t) == trimEnd(trimStart(t))

RECURSIVE collapseWs(_)
\* body.replace(/\s+/g, " ")
collapseWs(t) ==
    IF Len(t) = 0 THEN <<>>
    ELSE IF IsWs(t[1])
         THEN IF Len(t) > 1 /\ IsWs(t[2])
              THEN collapseWs(Tail(t))
              ELSE <<" ">> \o collapseWs(Tail(t))
         ELSE <<t[1]>> \o collapseWs(Tail(t))

\* body.replace(/\s+/g, " ").trim()
normalizeBody(t) == trim(collapseWs(t))

\* ------------------------------------------------------------ environment
\* The URLs ingested.  The second one ends like a chunk id of the first.
URLs == {<<"u">>, <<"u", "-chunk-", "1">>}

\* What the web can serve for a URL: document.title and document.body.innerText
Pages ==
    { [head |-> "T0", body |-> <<"a">>],
      [head |-> "T1", body |-> <<" ", "a", " ", "\n", "b", " ", "a">>],
      [head |-> "T2", body |-> <<"b", " ", "b">>],
      [head |-> "T3", body |-> <<"b", " ", "a", " ", "b", "\n", "a", " ", "a", " ">>] }

Questions == {<<"a">>, <<"b", " ", "a">>}

\* embeddingModel.embedContent(text) when the service answers: the vector
\* of the text.  The model keeps the text itself as the one component, so
\* that different texts have different vectors.
embedContent(t) == <<t>>

\* What generateVectorEmbeddings(text) can return: result.embedding.values,
\* an empty values array, or [] from the catch block.
generateVectorEmbeddings(t) == {<<>>, embedContent(t)}

Digits == <<"0", "1", "2", "3", "4", "5", "6", "7", "8", "9">>

\* the id scheme of the superseded variant: ids: [url]
chunkId_UrlOnly(u, k) == u

\* the chunk number taken from a counter that runs on across ingests
chunkId_Counter(u, k) == u \o <<"-chunk-", Digits[k + 1 + ops]>>

\* an id that leaves the url out
chunkId_NoUrl(u, k) == <<"-chunk-", Digits[k + 1]>>

\* `${url}-chunk-${i}`
chunkId(u, k) == u \o <<"-chunk-", Digits[k + 1]>>

\* The Chroma collection is a function from the ids it holds to records.
EmptyCollection == [id \in {} |-> {}]

\* a call that hands back a new, empty collection under the name
getOrCreateCollection_Recreate(coll) == EmptyCollection

\* chromaClient.getOrCreateCollection({name}): the collection of that name
\* with the records it holds; a collection created by the call holds none.
getOrCreateCollection(coll) == coll

\* an add that drops what the collection held before
collectionAdd_Recreate(coll, id, embedding, m) ==
    [x \in {id} |-> [embedding |-> embedding, metadata |-> m]]

\* collection.add({ids: [id], embeddings: [embedding], metadatas: [m]}):
\* Chroma's add inserts a new id and ignores a record whose id the
\* collection already holds (upsert, which the source does not call, is
\* the operation that overwrites).
collectionAdd(coll, id, embedding, m) ==
    IF id \in DOMAIN coll THEN coll
    ELSE [x \in DOMAIN coll \cup {id} |->
             IF x = id THEN [embedding |-> embedding, metadata |-> m] ELSE coll[x]]

\* All sequences of n distinct elements of S
Rankings(S, n) ==
    {r \in [1..n -> S] : \A a, b \in 1..n : a # b => r[a] # r[b]}

\* collection.query({nResults, queryEmbeddings: [e]}): the nResults nearest
\* records, or all of them when the collection holds fewer, closest first.
\* Which records are nearest is the store's business: any ranking.
collectionQuery(coll, nResults) ==
    LET n == Min(nResults, Cardinality(DOMAIN coll))
    IN  {[k \in 1..n |-> coll[r[k]].metadata] : r \in Rankings(DOMAIN coll, n)}

\* ------------------------------------------------------- prompt assembly
RECURSIVE filterBoolean(_)
\* .filter(Boolean) on a list of strings: drops the empty string
filterBoolean(xs) ==
    IF Len(xs) = 0 THEN <<>>
    ELSE IF Len(xs[1]) = 0
         THEN filterBoolean(Tail(xs))
         ELSE <<xs[1]>> \o filterBoolean(Tail(xs))

InSeq(x, xs) == \E k \in 1..Len(xs) : xs[k] = x

RECURSIVE uniqueInOrder(_, _)
\* [...new Set(xs)]: insertion order of a Set is first-occurrence order
uniqueInOrder(xs, seen) ==
    IF Len(xs) = 0 THEN seen
    ELSE IF InSeq(xs[1], seen)
         THEN uniqueInOrder(Tail(xs), seen)
         ELSE uniqueInOrder(Tail(xs), Append(seen, xs[1]))

\* The template literal of chat: its interpolated parts, in order.
buildPrompt(q, ms) ==
    [ query   |-> q,
      urls    |-> uniqueInOrder([k \in 1..Len(ms) |-> ms[k].url], <<>>),
      context |-> filterBoolean([k \in 1..Len(ms) |-> ms[k].body]) ]

NoPrompt == [query |-> <<>>, urls |-> <<>>, context |-> <<>>]

\* ----------------------------------------------------------- state, cont.
NoCalls == [fetch |-> 0, embed |-> 0, add |-> 0, query |-> 0, generate |-> 0]
NoReport == [op |-> "none", result |-> "none"]
NoChunkCall == [state |-> "none"]
NoProcs == <<>>

\* the entry being built for the running ingest is the last one of hist
Cur == Len(hist)

InitLocals ==
    /\ procs = NoProcs
    /\ url = <<>> /\ head = "" /\ bodyChunks = <<>> /\ i = 0
    /\ bodyEmbedding = <<>>
    /\ question = <<>> /\ questionEmbedding = <<>> /\ metadatas = <<>>
    /\ prompt = NoPrompt
    /\ calls = NoCalls /\ report = NoReport /\ hist = <<>>

Init ==
    /\ chunkCall = NoChunkCall
    /\ store = EmptyCollection
    /\ pc = "main" /\ ops = 0
    /\ InitLocals

\* ----------------------------------------------------------------- ingest
Report(o, r) == [op |-> o, result |-> r]

\* An event of an ingest: an external call going out ("call"), coming back
\* resolved or rejected ("ret"), or the closing console line ("log").
Event(e, w, k) == [ev |-> e, what |-> w, k |-> k]

\* One entry of hist: what the web and the services answered to one ingest
\* (loaded, raw, embeds, writeFailed), what ingest computed from it (head,
\* body, chunks), what it logged (result), the collection around it, and
\* its events in the order they happened.
NewEntry(u) ==
    [ url |-> u, loaded |-> FALSE, raw |-> <<>>, head |-> "", body |-> <<>>,
      chunks |-> <<>>, embeds |-> <<>>, writeFailed |-> FALSE,
      result |-> "running", before |-> store, after |-> store,
      events |-> <<Event("call", "fetch", 0)>> ]

\* hist with an event added to the running ingest
Ev(h, e) == [h EXCEPT ![Len(h)].events = Append(@, e)]

\* hist with the running ingest closed: its result and the store it leaves
Closed(h, r, st) ==
    [h EXCEPT ![Len(h)].result = r, ![Len(h)].after = st,
              ![Len(h)].events = Append(@, Event("log", r, 0))]

\* await ingest(u) at the top level: the function logs and calls
\* scrapeWebPage, which starts the browser and loads the page.
IngestCall(u) ==
    /\ pc = "main" /\ ops < MaxOps
    /\ pc' = "scrape" /\ ops' = ops + 1
    /\ url' = u /\ head' = "" /\ bodyChunks' = <<>> /\ i' = 0
    /\ bodyEmbedding' = <<>>
    /\ calls' = [NoCalls EXCEPT !.fetch = 1]
    /\ report' = Report("ingest", "running")
    /\ hist' = Append(hist, NewEntry(u))
    /\ UNCHANGED <<chunkCall, procs, store, chatLocals>>

\* ingest without its try/catch: the exception reaches the top-level await
IngestFailed_Raise(h) ==
    /\ pc' = "crashed"
    /\ report' = Report("ingest", "failure")
    /\ hist' = Closed(h, "failure", store)
    /\ UNCHANGED <<chunkCall, procs, store, ops, chatLocals>>

\* The catch block of ingest: console.error("Failed to ingest"), and the
\* function returns normally to the top level.
IngestFailed(h) ==
    /\ pc' = "main"
    /\ report' = Report("ingest", "failure")
    /\ hist' = Closed(h, "failure", store)
    /\ UNCHANGED <<chunkCall, procs, store, ops, chatLocals>>

\* launch, goto or evaluate rejects: scrapeWebPage rethrows, ingest catches.
ScrapeThrow ==
    /\ pc = "scrape"
    /\ IngestFailed(Ev(hist, Event("ret", "fetch", 0)))
    /\ UNCHANGED <<ingestLocals, calls>>

\* if (!body || body.trim().length < 50) throw
tooShort(body) == Len(body) = 0 \/ Len(trim(body)) < MinBodyLen

\* The page loads and scrapeWebPage returns {head, body} or throws for a
\* short body; ingest chunks the body and starts on chunk 0.
ScrapeReturn(pg) ==
    /\ pc = "scrape"
    /\ IF tooShort(pg.body)
       THEN /\ IngestFailed(Ev([hist EXCEPT ![Cur].loaded = TRUE, ![Cur].raw = pg.body],
                               Event("ret", "fetch", 0)))
            /\ UNCHANGED <<ingestLocals, calls>>
       ELSE LET b  == normalizeBody(pg.body)
                cs == chunkText(b, ChunkSize)
                h  == Ev([hist EXCEPT ![Cur].loaded = TRUE, ![Cur].raw = pg.body,
                                      ![Cur].head = pg.head, ![Cur].body = b,
                                      ![Cur].chunks = cs],
                         Event("ret", "fetch", 0))
            IN  /\ head' = pg.head /\ bodyChunks' = cs /\ i' = 0
                /\ IF Len(cs) = 0
                   THEN /\ pc' = "main"
                        /\ report' = Report("ingest", "success")
                        /\ hist' = Closed(h, "success", store)
                        /\ calls' = calls
                   ELSE /\ pc' = "embed"
                        /\ report' = report
                        /\ hist' = Ev(h, Event("call", "embed", 0))
                        /\ calls' = [calls EXCEPT !.embed = @ + 1]
                /\ UNCHANGED <<chunkCall, procs, store, ops, url, bodyEmbedding, chatLocals>>

\* a loop that steps over every other chunk
nextIndex_Skip(k) == k + 2

\* a loop that forgets to step
nextIndex_Stuck(k) == k

\* i++
nextIndex(k) == k + 1

\* The end of one pass of the for loop: i++, then the next chunk's embedding
\* or, past the last chunk, console.log("Ingested") and return.
NextChunk(h, st) ==
    /\ i' = nextIndex(i)
    /\ IF nextIndex(i) < Len(bodyChunks)
       THEN /\ pc' = "embed"
            /\ report' = report
            /\ hist' = Ev(h, Event("call", "embed", nextIndex(i)))
            /\ calls' = [calls EXCEPT !.embed = @ + 1]
       ELSE /\ pc' = "main"
            /\ report' = Report("ingest", "success")
            /\ hist' = Closed(h, "success", st)
            /\ calls' = calls

\* insertIntoDB without its guard
skipInsert_Never(embedding) == FALSE

\* if (!embedding || embedding.length === 0) return;
skipInsert(embedding) == Len(embedding) = 0

\* generateVectorEmbeddings(bodyChunks[i]) returns e.  insertIntoDB returns
\* at once for an empty embedding; otherwise it asks Chroma for the
\* collection and adds the record.
EmbedReturn ==
    /\ pc = "embed"
    /\ \E e \in generateVectorEmbeddings(bodyChunks[i + 1]) :
           /\ bodyEmbedding' = e
           /\ LET h == Ev([hist EXCEPT ![Cur].embeds = Append(@, e)],
                           Event("ret", "embed", i))
              IN  IF skipInsert(e)
                  THEN NextChunk(h, store)
                  ELSE /\ pc' = "insert" /\ i' = i
                       /\ report' = report
                       /\ hist' = Ev(h, Event("call", "add", i))
                       /\ calls' = [calls EXCEPT !.add = @ + 1]
    /\ UNCHANGED <<chunkCall, procs, store, ops, url, head, bodyChunks, chatLocals>>

\* getOrCreateCollection and collection.add resolve.
InsertReturn ==
    /\ pc = "insert"
    /\ LET st == collectionAdd(getOrCreateCollection(store), chunkId(url, i), bodyEmbedding,
                      [url |-> url, head |-> head, body |-> bodyChunks[i + 1]])
       IN  /\ store' = st
           /\ NextChunk(Ev(hist, Event("ret", "add", i)), st)
    /\ UNCHANGED <<chunkCall, procs, ops, url, head, bodyChunks, bodyEmbedding, chatLocals>>

\* getOrCreateCollection or collection.add rejects (the store cannot be
\* reached): the exception leaves the loop for the catch block of ingest.
InsertThrow ==
    /\ pc = "insert"
    /\ IngestFailed(Ev([hist EXCEPT ![Cur].writeFailed = TRUE], Event("ret", "add", i)))
    /\ UNCHANGED <<ingestLocals, calls>>

\* ------------------------------------------------------------------- chat
\* await chat(q) at the top level: logs and embeds the question.
ChatCall(q) ==
    /\ pc = "main" /\ ops < MaxOps
    /\ pc' = "chat_embed" /\ ops' = ops + 1
    /\ question' = q /\ questionEmbedding' = <<>> /\ metadatas' = <<>>
    /\ prompt' = NoPrompt
    /\ calls' = [NoCalls EXCEPT !.embed = 1]
    /\ report' = Report("chat", "running")
    /\ UNCHANGED <<chunkCall, procs, store, ingestLocals, hist>>

\* generateVectorEmbeddings(question) returns e; chat goes on to
\* getOrCreateCollection and collection.query whatever e is.
ChatEmbedReturn ==
    /\ pc = "chat_embed"
    /\ questionEmbedding' \in generateVectorEmbeddings(question)
    /\ pc' = "chat_query"
    /\ calls' = [calls EXCEPT !.query = @ + 1]
    /\ UNCHANGED <<chunkCall, procs, store, ops, ingestLocals, question, metadatas,
                   prompt, report, hist>>

\* A rejected promise in chat is not caught: the top-level await throws and
\* the program ends.
ChatFailed ==
    /\ pc' = "crashed"
    /\ report' = Report("chat", "failure")
    /\ UNCHANGED <<chunkCall, procs, store, ops, ingestLocals, chatLocals, calls, hist>>

\* getOrCreateCollection or collection.query rejects.
ChatQueryThrow ==
    /\ pc = "chat_query"
    /\ ChatFailed

\* chat without its empty-result check
noMatches_Never(ms) == FALSE

\* if (metadatas.length === 0)
noMatches(ms) == Len(ms) = 0

\* collection.query resolves with the ranked matches ms.  No match: chat
\* logs that no context was found and returns.  Otherwise it builds the
\* prompt and calls model.generateContent.
ChatQueryReturn ==
    /\ pc = "chat_query"
    /\ store' = getOrCreateCollection(store)
    /\ \E ms \in collectionQuery(getOrCreateCollection(store), TopK) :
           /\ metadatas' = ms
           /\ IF noMatches(ms)
              THEN /\ pc' = "main"
                   /\ report' = Report("chat", "noContext")
                   /\ prompt' = prompt
                   /\ calls' = calls
              ELSE /\ pc' = "chat_generate"
                   /\ report' = report
                   /\ prompt' = buildPrompt(question, ms)
                   /\ calls' = [calls EXCEPT !.generate = @ + 1]
    /\ UNCHANGED <<chunkCall, procs, ops, ingestLocals, question,
                   questionEmbedding, hist>>

\* model.generateContent resolves: the answer is logged.
GenerateReturn ==
    /\ pc = "chat_generate"
    /\ pc' = "main"
    /\ report' = Report("chat", "answered")
    /\ UNCHANGED <<chunkCall, procs, store, ops, ingestLocals, chatLocals, calls, hist>>

\* model.generateContent rejects.
GenerateThrow ==
    /\ pc = "chat_generate"
    /\ ChatFailed

\* ------------------------------------------------------------- the program
IngestNext ==
    \/ \E u \in URLs : IngestCall(u)
    \/ ScrapeThrow
    \/ \E pg \in Pages : ScrapeReturn(pg)
    \/ EmbedReturn
    \/ InsertReturn
    \/ InsertThrow

ChatNext ==
    \/ \E q \in Questions : ChatCall(q)
    \/ ChatEmbedReturn
    \/ ChatQueryThrow
    \/ ChatQueryReturn
    \/ GenerateReturn
    \/ GenerateThrow

Next == IngestNext \/ ChatNext

Spec == Init /\ [][Next]_vars

\* The awaited calls of ingest come back: each call to the page, to the
\* embedding service and to the store eventually resolves or rejects.
IngestReturns ==
    \/ ScrapeThrow
    \/ \E pg \in Pages : ScrapeReturn(pg)
    \/ EmbedReturn
    \/ InsertReturn
    \/ InsertThrow

SpecLive == Init /\ [][Next]_vars /\ WF_vars(IngestReturns)

\* ------------------------------------- chat against a collection left by
\* earlier runs: the collection outlives the program, and every variant of
\* the program writes to the same collection name.  A record can hold a
\* blank body (a chunk of a whitespace-only text is " ") or an empty one
\* (the default of insertIntoDB's body parameter).
U1 == <<"u">>
U2 == <<"v">>

Persisted ==
    chunkId(U1, 0) :> [embedding |-> <<1>>,
                       metadata |-> [url |-> U1, head |-> "T1", body |-> <<"a", " ", "b">>]]
 @@ chunkId(U1, 1) :> [embedding |-> <<2>>,
                       metadata |-> [url |-> U1, head |-> "T1", body |-> <<" ">>]]
 @@ chunkId(U2, 0) :> [embedding |-> <<3>>,
                       metadata |-> [url |-> U2, head |-> "T2", body |-> <<>>]]
 @@ chunkId(U2, 1) :> [embedding |-> <<4>>,
                       metadata |-> [url |-> U2, head |-> "T2", body |-> <<"b">>]]

InitChat ==
    /\ chunkCall = NoChunkCall
    /\ store \in {[id \in S |-> Persisted[id]] : S \in SUBSET DOMAIN Persisted}
    /\ pc = "main" /\ ops = 0
    /\ InitLocals

SpecChat == InitChat /\ [][ChatNext]_vars

\* ---------------------------------------------- chunkText called directly
Texts == UNION {[1..n -> Chars] : n \in 1..MaxTextLen}

\* chunkText is also called with the arguments its contract rejects: the
\* empty text and a chunkSize of 0 or below.
InitChunk ==
    /\ chunkCall \in {[state |-> "called", text |-> t, chunkSize |-> n,
                        k |-> 0, chunks |-> <<>>] :
                         t \in Texts \cup {<<>>}, n \in (0 - 1)..MaxChunkSize}
    /\ store = EmptyCollection
    /\ pc = "main" /\ ops = 0
    /\ InitLocals

\* chunkSize > 0: the loop ends and chunkText returns its chunks.  There is
\* no check of the arguments before the loop.
ChunkReturn ==
    /\ chunkCall.state = "called"
    /\ chunkCall.chunkSize > 0
    /\ chunkCall' = [chunkCall EXCEPT !.state = "returned",
                                      !.chunks = chunkText(chunkCall.text, chunkCall.chunkSize)]
    /\ UNCHANGED <<procs, store, pc, ops, ingestLocals, chatLocals, calls, report, hist>>

\* chunkSize <= 0: one pass of the for loop.  i += chunkSize never takes i
\* to words.length (split gives at least one piece), so every pass pushes
\* a chunk and the loop goes on.
ChunkLoopStep ==
    /\ chunkCall.state \in {"called", "looping"}
    /\ chunkCall.chunkSize <= 0
    /\ chunkCall.k < Len(split(chunkCall.text))
    /\ Len(chunkCall.chunks) < MaxLoopSteps
    /\ chunkCall' =
           [chunkCall EXCEPT
               !.state = "looping",
               !.chunks = Append(@, join(slice(split(chunkCall.text), chunkCall.k,
                                               chunkCall.k + chunkCall.chunkSize),
                                         <<" ">>)),
               !.k = @ + chunkCall.chunkSize]
    /\ UNCHANGED <<procs, store, pc, ops, ingestLocals, chatLocals, calls, report, hist>>

NextChunkCall == ChunkReturn \/ ChunkLoopStep

SpecChunk == InitChunk /\ [][NextChunkCall]_vars

\* ------------------------------------ two invocations of ingest at once
\* ingest(u) started twice without awaiting the first (Promise.all): each
\* invocation has its own locals and runs up to its next await; the
\* collection is the one thing they share.  Both are given the same page.
Procs == {1, 2}

Proc(u, pg) ==
    [ pc |-> "scrape", url |-> u, page |-> pg, head |-> "", chunks |-> <<>>,
      i |-> 0, embedding |-> <<>>, collection |-> EmptyCollection,
      embeds |-> <<>>, added |-> {},
      writeFailed |-> FALSE, result |-> "running" ]

InitConc ==
    /\ chunkCall = NoChunkCall
    /\ store = EmptyCollection
    /\ pc = "main" /\ ops = 0
    /\ url = <<>> /\ head = "" /\ bodyChunks = <<>> /\ i = 0
    /\ bodyEmbedding = <<>>
    /\ question = <<>> /\ questionEmbedding = <<>> /\ metadatas = <<>>
    /\ prompt = NoPrompt
    /\ calls = NoCalls /\ report = NoReport /\ hist = <<>>
    /\ \E u \in URLs : \E pg \in {x \in Pages : ~tooShort(x.body)} :
           procs = [p \in Procs |-> Proc(u, pg)]

ConcFrame ==
    UNCHANGED <<chunkCall, pc, ops, ingestLocals, chatLocals, calls, report, hist>>

\* i++ and the loop test of invocation q
ConcNextChunk(q) ==
    IF nextIndex(q.i) < Len(q.chunks)
    THEN [q EXCEPT !.i = nextIndex(q.i), !.pc = "embed"]
    ELSE [q EXCEPT !.i = nextIndex(q.i), !.pc = "done", !.result = "success"]

\* scrapeWebPage resolves for invocation p, which chunks the body
ConcScrapeReturn(p) ==
    /\ procs[p].pc = "scrape"
    /\ LET cs == chunkText(normalizeBody(procs[p].page.body), ChunkSize)
       IN  procs' = [procs EXCEPT ![p].head = procs[p].page.head,
                                  ![p].chunks = cs,
                                  ![p].pc = IF Len(cs) = 0 THEN "done" ELSE "embed",
                                  ![p].result = IF Len(cs) = 0 THEN "success" ELSE @]
    /\ store' = store
    /\ ConcFrame

\* generateVectorEmbeddings resolves for invocation p: insertIntoDB returns
\* at once on an empty embedding, otherwise it awaits getOrCreateCollection
ConcEmbedReturn(p) ==
    /\ procs[p].pc = "embed"
    /\ \E e \in generateVectorEmbeddings(procs[p].chunks[procs[p].i + 1]) :
           LET q == [procs[p] EXCEPT !.embedding = e, !.embeds = Append(@, e)]
           IN  procs' = [procs EXCEPT ![p] = IF skipInsert(e) THEN ConcNextChunk(q)
                                             ELSE [q EXCEPT !.pc = "collection"]]
    /\ store' = store
    /\ ConcFrame

\* getOrCreateCollection resolves for invocation p, which awaits add
ConcGetCollectionReturn(p) ==
    /\ procs[p].pc = "collection"
    /\ store' = getOrCreateCollection(store)
    /\ procs' = [procs EXCEPT ![p].pc = "add",
                              ![p].collection = getOrCreateCollection(store)]
    /\ ConcFrame

\* a handle that carries the records as they were when it was obtained
handleTarget_Snapshot(handle, current) == handle

\* What a call through the collection object acts on: the object names the
\* collection, and the request goes to the records the server holds when
\* it arrives.
handleTarget(handle, current) == current

\* collection.add resolves for invocation p
ConcAddReturn(p) ==
    /\ procs[p].pc = "add"
    /\ LET q  == procs[p]
           id == chunkId(q.url, q.i)
           target == handleTarget(q.collection, store)
       IN  /\ store' = collectionAdd(target, id, q.embedding,
                            [url |-> q.url, head |-> q.head, body |-> q.chunks[q.i + 1]])
           /\ procs' = [procs EXCEPT ![p] =
                  ConcNextChunk([q EXCEPT !.collection = EmptyCollection,
                                          !.added = IF id \in DOMAIN target THEN @
                                                    ELSE @ \cup {q.i}])]
    /\ ConcFrame

\* getOrCreateCollection or collection.add rejects for invocation p: its
\* catch block logs the failure
ConcInsertThrow(p) ==
    /\ procs[p].pc \in {"collection", "add"}
    /\ procs' = [procs EXCEPT ![p].pc = "done", ![p].result = "failure",
                              ![p].writeFailed = TRUE]
    /\ store' = store
    /\ ConcFrame

NextConc ==
    \/ \E p \in Procs : ConcScrapeReturn(p)
    \/ \E p \in Procs : ConcEmbedReturn(p)
    \/ \E p \in Procs : ConcGetCollectionReturn(p)
    \/ \E p \in Procs : ConcAddReturn(p)
    \/ \E p \in Procs : ConcInsertThrow(p)

SpecConc == InitConc /\ [][NextConc]_vars

\* ================================================================= claims
\* Measures written apart from the operators of the program.

\* the words of a text: its maximal runs of non-whitespace characters
wordCount(t) ==
    Cardinality({k \in 1..Len(t) : ~IsWs(t[k]) /\ (k = 1 \/ IsWs(t[k - 1]))})

\* ceil(a / b) for b > 0
CeilDiv(a, b) == (a + b - 1) \div b

\* from the first to the last non-whitespace character
trimmedLength(t) ==
    LET nz == {k \in 1..Len(t) : ~IsWs(t[k])}
    IN  IF nz = {} THEN 0
        ELSE (CHOOSE k \in nz : \A m \in nz : m <= k)
                 - (CHOOSE k \in nz : \A m \in nz : k <= m) + 1

IsBlank(t) == \A k \in 1..Len(t) : IsWs(t[k])

\* the id the design gives chunk k of url u: url, "-chunk-", k
idOf(u, k) == u \o <<"-chunk-">> \o <<Digits[k + 1]>>

\* out is the elements of in at the positions K, in their order
TakenInOrder(out, in, K) ==
    /\ Len(out) = Cardinality(K)
    /\ \E f \in [1..Len(out) -> K] :
           /\ \A a, b \in 1..Len(out) : a < b => f[a] < f[b]
           /\ \A j \in 1..Len(out) : out[j] = in[f[j]]

\* the fetch of entry e gave a page of usable length
FetchOk(e) == e.loaded /\ trimmedLength(e.raw) >= MinBodyLen

AllEmbedded(e) == \A k \in 1..Len(e.embeds) : Len(e.embeds[k]) > 0

\* C1: for every non-empty text and every n > 0, chunkText(text, n) returns
\* ceil(wordCount(text)/n) chunks, every chunk has at most n words and all
\* but the last exactly n, and the chunks joined with single spaces are the
\* whitespace-normalized text.
C1_ChunkContract ==
    (chunkCall.state = "returned" /\ Len(chunkCall.text) > 0 /\ chunkCall.chunkSize > 0) =>
        LET t  == chunkCall.text
            n  == chunkCall.chunkSize
            cs == chunkCall.chunks
        IN  /\ Len(cs) = CeilDiv(wordCount(t), n)
            /\ \A k \in 1..Len(cs) :
                   /\ wordCount(cs[k]) <= n
                   /\ k < Len(cs) => wordCount(cs[k]) = n
            /\ join(cs, <<" ">>) = normalizeBody(t)

\* C2: the store never holds a record with an empty embedding, and the step
\* that receives an empty embedding for a chunk issues no write and leaves
\* the store as it was.
C2_NoEmptyEmbeddingStored ==
    [][ /\ \A id \in DOMAIN store' : Len(store'[id].embedding) > 0
        /\ (pc = "embed" /\ Len(bodyEmbedding') = 0)
               => (store' = store /\ calls'.add = calls.add /\ pc' # "insert") ]_vars

\* an ingest that skipped a chunk for its empty embedding and stored another
C2_Witness ==
    \E n \in 1..Len(hist) :
        /\ hist[n].result = "success"
        /\ \E k \in 1..Len(hist[n].embeds) :
               /\ Len(hist[n].embeds[k]) = 0
               /\ idOf(hist[n].url, k - 1) \notin DOMAIN hist[n].after
        /\ DOMAIN hist[n].after # DOMAIN hist[n].before

\* C3: when the query returns zero matches chat reports that no context
\* was found and returns without calling the generative model; the model
\* is only ever called by a chat whose query returned at least one match.
C3_NoContextNoModelCall ==
    [][ /\ (pc = "chat_query" /\ pc' # "crashed" /\ Len(metadatas') = 0)
               => (/\ pc' = "main"
                   /\ report' = Report("chat", "noContext")
                   /\ calls'.generate = 0)
        /\ calls'.generate > 0 => (report'.op = "chat" /\ Len(metadatas') > 0) ]_vars

\* a chat whose query came back empty
C3_Witness ==
    /\ report = Report("chat", "noContext")
    /\ calls.query = 1 /\ calls.generate = 0
    /\ Len(metadatas) = 0

C5_ReingestOverwrites ==
    \A n \in 1..(Len(hist) - 1) :
        LET a == hist[n]
            b == hist[n + 1]
        IN  ( /\ a.url = b.url /\ a.result = "success" /\ b.result = "success"
              /\ b.raw # a.raw )
            => \A k \in 1..Len(b.chunks) :
                   Len(b.embeds[k]) > 0 =>
                       /\ idOf(b.url, k - 1) \in DOMAIN b.after
                       /\ b.after[idOf(b.url, k - 1)].metadata.body = b.chunks[k]
                       /\ b.after[idOf(b.url, k - 1)].embedding = b.embeds[k]

\* C6: a chat whose question embedding came back empty fails without
\* issuing a vector-store query or a generative-model call.
C6_EmptyQuestionEmbeddingFails ==
    (report.op = "chat" /\ pc # "chat_embed" /\ Len(questionEmbedding) = 0)
        => (calls.query = 0 /\ calls.generate = 0 /\ report.result = "failure")

\* C7: when the fetch fails or the body is below the minimum length, the
\* step that learns it reports failure, leaves the store untouched and
\* returns to the top level, which goes on with its next call.
C7_FetchFailureIsolated ==
    [][ (pc = "scrape" /\ pc' # "scrape" /\ ~FetchOk(hist'[Len(hist')]))
            => ( /\ store' = store
                 /\ report' = Report("ingest", "failure")
                 /\ hist'[Len(hist')].result = "failure"
                 /\ hist'[Len(hist')].after = hist'[Len(hist')].before
                 /\ pc' = "main" ) ]_vars

\* an ingest that failed on a short body, and the next ingest stored records
C7_Witness ==
    \E n \in 1..(Len(hist) - 1) :
        /\ hist[n].loaded /\ ~FetchOk(hist[n]) /\ hist[n].result = "failure"
        /\ hist[n + 1].result = "success"
        /\ DOMAIN hist[n + 1].after # DOMAIN hist[n + 1].before

\* C8: once the fetch has succeeded ingest reports success, has embedded
\* every chunk, and has stored every chunk whose embedding was non-empty;
\* only a fetch failure makes it report failure.
C8_OnlyFetchFailureFails ==
    \A n \in 1..Len(hist) :
        LET e == hist[n]
        IN  (e.result # "running" /\ FetchOk(e))
            => /\ e.result = "success"
               /\ Len(e.embeds) = Len(e.chunks)
               /\ \A k \in 1..Len(e.embeds) :
                      Len(e.embeds[k]) > 0 => idOf(e.url, k - 1) \in DOMAIN e.after

\* C9: a successful ingest into an empty store of a body of W words with
\* every embedding non-empty leaves exactly ceil(W/n) records, under the
\* ids url-chunk-0 .. url-chunk-(ceil(W/n)-1), each carrying its chunk.
C9_FreshIngestIds ==
    \A n \in 1..Len(hist) :
        LET e == hist[n]
            m == CeilDiv(wordCount(e.raw), ChunkSize)
        IN  (e.result = "success" /\ DOMAIN e.before = {} /\ AllEmbedded(e))
            => /\ DOMAIN e.after = {idOf(e.url, k) : k \in 0..(m - 1)}
               /\ Cardinality(DOMAIN e.after) = m
               /\ \A k \in 0..(m - 1) :
                      /\ e.after[idOf(e.url, k)].metadata.url = e.url
                      /\ wordCount(e.after[idOf(e.url, k)].metadata.body)
                             = Min(ChunkSize, wordCount(e.raw) - k * ChunkSize)

\* a fresh store that a body of more than two chunks was ingested into
C9_Witness ==
    \E n \in 1..Len(hist) :
        /\ hist[n].result = "success" /\ DOMAIN hist[n].before = {}
        /\ AllEmbedded(hist[n])
        /\ wordCount(hist[n].raw) > 2 * ChunkSize
        /\ Cardinality(DOMAIN hist[n].after) >= 3

\* C10: the prompt handed to the generative model holds the matched bodies
\* in rank order without the empty and the blank ones, and each distinct
\* url of the matches once, in the order of its first match.
C10_PromptFromMatches ==
    pc = "chat_generate" =>
        LET bodies == [k \in 1..Len(metadatas) |-> metadatas[k].body]
            urls   == [k \in 1..Len(metadatas) |-> metadatas[k].url]
        IN  /\ TakenInOrder(prompt.context, bodies,
                            {k \in 1..Len(bodies) : ~IsBlank(bodies[k])})
            /\ TakenInOrder(prompt.urls, urls,
                            {k \in 1..Len(urls) : \A m \in 1..(k - 1) : urls[m] # urls[k]})

\* C11: chunkText called with an empty text or with a chunkSize of 0 or
\* below fails with an error: it returns no chunk and does not loop.
C11_InvalidInputRejected ==
    ( /\ chunkCall.state # "none"
      /\ (Len(chunkCall.text) = 0 \/ chunkCall.chunkSize <= 0) )
        => (chunkCall.state \in {"called", "failed"} /\ chunkCall.chunks = <<>>)

\* the chunk positions of entry e at which a failure was raised: an empty
\* embedding, or the store write that was rejected
FailedAt(e) ==
    {k \in 1..Len(e.embeds) : Len(e.embeds[k]) = 0}
        \cup (IF e.writeFailed THEN {Len(e.embeds)} ELSE {})

\* C12: a failure raised for one chunk of the loop (its embedding or its
\* store write) stays with that chunk: every later chunk is still embedded
\* and, with a non-empty embedding, written, and the ingest is not aborted.
C12_ChunkFailureContained ==
    \A n \in 1..Len(hist) :
        LET e == hist[n]
        IN  (e.result # "running" /\ FailedAt(e) # {})
            => /\ e.result = "success"
               /\ \A f \in FailedAt(e) : \A k \in (f + 1)..Len(e.chunks) :
                      /\ k <= Len(e.embeds)
                      /\ Len(e.embeds[k]) > 0 => idOf(e.url, k - 1) \in DOMAIN e.after

\* call c may be the next call after the call that returned as r, in an
\* ingest whose embeddings came back as embeds
FollowsInOrder(r, c, embeds) ==
    \/ r.what = "fetch" /\ c.what = "embed" /\ c.k = 0
    \/ r.what = "embed" /\ c.what = "add" /\ c.k = r.k /\ Len(embeds[r.k + 1]) > 0
    \/ r.what = "embed" /\ c.what = "embed" /\ c.k = r.k + 1 /\ Len(embeds[r.k + 1]) = 0
    \/ r.what = "add" /\ c.what = "embed" /\ c.k = r.k + 1

\* C14: in one ingest at most one external call is in flight, and the calls
\* go out in the order fetch, then for i = 0, 1, 2, ... embed(i) followed by
\* the store write for i unless it is skipped: every call goes out only
\* after the call before it came back.
C14_OneCallAtATimeInOrder ==
    \A n \in 1..Len(hist) :
        LET es == hist[n].events
        IN  \A j \in 1..Len(es) :
                /\ es[j].ev = "call" =>
                       \/ j = 1 /\ es[j].what = "fetch"
                       \/ /\ j > 1 /\ es[j - 1].ev = "ret"
                          /\ FollowsInOrder(es[j - 1], es[j], hist[n].embeds)
                /\ es[j].ev = "ret" =>
                       /\ j > 1 /\ es[j - 1].ev = "call"
                       /\ es[j - 1].what = es[j].what /\ es[j - 1].k = es[j].k
                /\ es[j].ev = "log" => (j = Len(es) /\ j > 1 /\ es[j - 1].ev = "ret")

\* an ingest of three chunks, one of them skipped and one written
C14_Witness ==
    \E n \in 1..Len(hist) :
        /\ hist[n].result = "success" /\ Len(hist[n].chunks) >= 3
        /\ \E k \in 1..Len(hist[n].embeds) : Len(hist[n].embeds[k]) = 0
        /\ \E j \in 1..Len(hist[n].events) :
               hist[n].events[j] = Event("call", "add", 2)

\* C15: when a URL ingested with m chunks is ingested again after its
\* content shrank to fewer chunks, the records of the chunk indexes the new
\* content no longer has are still stored, unchanged; no ingest removes a
\* record from the collection.
C15_ShrinkLeavesOrphans ==
    /\ \A n \in 1..Len(hist) :
           hist[n].result # "running" => DOMAIN hist[n].before \subseteq DOMAIN hist[n].after
    /\ \A n \in 1..(Len(hist) - 1) :
           LET a  == hist[n]
               b  == hist[n + 1]
               m  == CeilDiv(wordCount(a.raw), ChunkSize)
               m2 == CeilDiv(wordCount(b.raw), ChunkSize)
           IN  ( /\ a.url = b.url /\ a.result = "success" /\ b.result # "running"
                 /\ FetchOk(b) /\ m2 < m )
               => \A k \in m2..(m - 1) :
                      idOf(a.url, k) \in DOMAIN a.after
                          => /\ idOf(a.url, k) \in DOMAIN b.after
                             /\ b.after[idOf(a.url, k)] = a.after[idOf(a.url, k)]

\* three chunks stored, then the same URL ingested with fewer
C15_Witness ==
    \E n \in 1..(Len(hist) - 1) :
        /\ hist[n].url = hist[n + 1].url
        /\ hist[n].result = "success" /\ hist[n + 1].result = "success"
        /\ AllEmbedded(hist[n]) /\ AllEmbedded(hist[n + 1])
        /\ wordCount(hist[n].raw) > 2 * ChunkSize
        /\ wordCount(hist[n + 1].raw) <= 2 * ChunkSize
        /\ idOf(hist[n].url, 2) \in DOMAIN hist[n + 1].after

\* C16: chat never adds, changes or removes a stored record, whatever the
\* question and whatever its outcome: every step of a chat call, from the
\* call to its last return or failure, leaves the collection as it was.
C16_ChatLeavesStore ==
    [][(pc \in {"chat_embed", "chat_query", "chat_generate"} \/ pc' = "chat_embed")
           => store' = store]_vars

\* a chat that ran to its end against a collection holding records
C16_Witness ==
    /\ report.op = "chat" /\ pc \in {"main", "crashed"}
    /\ Len(hist) > 0 /\ DOMAIN store # {} /\ store = hist[Len(hist)].after

\* C17: every stored record's id is its metadata.url, "-chunk-" and a chunk
\* index; the ids of distinct (url, index) pairs differ; an ingest leaves
\* the records of every other URL as they were; and a record written for
\* chunk k holds chunk k, not another chunk or another URL's.
C17_IdsKeepUrlsApart ==
    /\ \A id \in DOMAIN store :
           \E k \in 0..(Len(Digits) - 1) : id = idOf(store[id].metadata.url, k)
    /\ \A u1, u2 \in URLs : \A k1, k2 \in 0..(Len(Digits) - 1) :
           chunkId(u1, k1) = chunkId(u2, k2) => (u1 = u2 /\ k1 = k2)
    /\ \A n \in 1..Len(hist) :
           LET e == hist[n]
           IN  e.result # "running" =>
                   /\ \A id \in DOMAIN e.before :
                          e.before[id].metadata.url # e.url
                              => (id \in DOMAIN e.after /\ e.after[id] = e.before[id])
                   /\ \A k \in 1..Len(e.embeds) :
                          ( /\ Len(e.embeds[k]) > 0
                            /\ ~(e.writeFailed /\ k = Len(e.embeds))
                            /\ idOf(e.url, k - 1) \notin DOMAIN e.before )
                          => /\ idOf(e.url, k - 1) \in DOMAIN e.after
                             /\ e.after[idOf(e.url, k - 1)].metadata.url = e.url
                             /\ e.after[idOf(e.url, k - 1)].metadata.body = e.chunks[k]

\* two URLs ingested one after the other, both with records in the store
C17_Witness ==
    /\ Len(hist) = 2 /\ hist[1].url # hist[2].url
    /\ hist[1].result = "success" /\ hist[2].result = "success"
    /\ \E id \in DOMAIN store : store[id].metadata.url = hist[1].url
    /\ Cardinality({id \in DOMAIN store : store[id].metadata.url = hist[2].url}) >= 2

\* how often the ingest of entry e made call w for chunk index k
CallsOf(e, w, k) ==
    Cardinality({j \in 1..Len(e.events) : e.events[j] = Event("call", w, k)})

LogsOf(e) == {j \in 1..Len(e.events) : e.events[j].ev = "log"}

\* one fetch, at most one embed call and one store write per chunk, none
\* beyond the chunks, one closing report, and nothing after a failed step
AtMostOnce(e) ==
    /\ CallsOf(e, "fetch", 0) = 1
    /\ \A k \in 0..(Len(Digits) - 1) :
           /\ CallsOf(e, "embed", k) <= 1
           /\ CallsOf(e, "add", k) <= CallsOf(e, "embed", k)
           /\ k >= CeilDiv(wordCount(e.raw), ChunkSize) => CallsOf(e, "embed", k) = 0
    /\ Cardinality(LogsOf(e)) = (IF e.result = "running" THEN 0 ELSE 1)
    /\ \A j \in LogsOf(e) :
           /\ j = Len(e.events)
           /\ e.events[j].what = e.result /\ e.result \in {"success", "failure"}
    /\ e.writeFailed => e.result = "failure"
    /\ e.result = "failure" =>
           /\ e.events[Len(e.events) - 1].ev = "ret"
           /\ e.events[Len(e.events) - 1].what = (IF e.writeFailed THEN "add" ELSE "fetch")

\* C18: every ingest terminates when each of its external calls eventually
\* returns or fails: it ends with one report of success or failure, having
\* made at most one embed call and one store write per chunk and no second
\* attempt at a failed step.
C18_IngestTerminates ==
    /\ [](\A n \in 1..Len(hist) : AtMostOnce(hist[n]))
    /\ (pc \in {"scrape", "embed", "insert"})
           ~> (pc = "main" /\ report.op = "ingest"
                  /\ report.result \in {"success", "failure"})

\* an ingest ended by a store write that failed after an earlier chunk was
\* stored
C18_Witness ==
    /\ pc = "main" /\ report = Report("ingest", "failure")
    /\ hist[Len(hist)].writeFailed /\ Len(hist[Len(hist)].embeds) >= 2
    /\ CallsOf(hist[Len(hist)], "add", 0) = 1

\* the chunk positions whose record invocation q handed to the store
WrittenBy(q) ==
    {k \in 1..Len(q.embeds) :
        Len(q.embeds[k]) > 0 /\ ~(q.writeFailed /\ k = Len(q.embeds))}

\* the collection after invocation a ran to its end and then invocation b,
\* each with the answers it got
OneAfterTheOther(a, b) ==
    LET K == WrittenBy(a) \cup WrittenBy(b)
    IN  [id \in {idOf(a.url, k - 1) : k \in K} |->
            LET k == CHOOSE x \in K : idOf(a.url, x - 1) = id
                w == IF k \in WrittenBy(a) THEN a ELSE b
            IN  [embedding |-> w.embeds[k],
                 metadata |-> [url |-> w.url, head |-> w.page.head, body |-> w.chunks[k]]]]

\* C13: two ingests of the same URL and page running at once, interleaved
\* at their awaits in any way, leave the collection that running them one
\* after the other leaves, in either order; an invocation fails only when
\* its own store call was rejected; no chunk is stored twice.
C13_InterleavingIndependent ==
    (\A p \in DOMAIN procs : procs[p].pc = "done") =>
        /\ \A p \in DOMAIN procs : \A r \in DOMAIN procs :
               p # r => store = OneAfterTheOther(procs[p], procs[r])
        /\ \A p \in DOMAIN procs :
               procs[p].result = (IF procs[p].writeFailed THEN "failure" ELSE "success")
        /\ \A p \in DOMAIN procs :
               Cardinality(DOMAIN store)
                   <= CeilDiv(wordCount(procs[p].page.body), ChunkSize)

\* both invocations embedded every chunk and succeeded, and each of them
\* was the first to store some chunk
C13_Witness ==
    /\ DOMAIN procs = {1, 2}
    /\ \A p \in DOMAIN procs :
           /\ procs[p].pc = "done" /\ procs[p].result = "success"
           /\ AllEmbedded(procs[p]) /\ procs[p].added # {}
    /\ Cardinality(DOMAIN store) >= 2

====
